---- MODULE Spec2Model ----
(***************************************************************************)
(* Model of the document text extraction pipeline of clausia-ai:          *)
(* src/app/services/pdf_reader_service.py (extract_text_with_ocr and its  *)
(* helpers), called concurrently by the gRPC servicer threads of          *)
(* src/grpc_server.py and by the HTTP endpoints of src/app/main.py.       *)
(*                                                                         *)
(* A text (Python str) is a sequence of one-character strings.  The PDF   *)
(* library and the OCR engine are deterministic stubs: a document is a    *)
(* record that says whether fitz.open accepts the bytes and what each     *)
(* page yields to get_text(), to get_pixmap() and to the OCR engine.      *)
(***************************************************************************)
EXTENDS Integers, Sequences, FiniteSets, TLC

\* ------------------------------------------------------------------ bounds

\* Largest number of pages of a document given to a single call.
MaxPages == 3

\* Largest number of pages of a document given to two concurrent calls.
MaxPairPages == 2

\* Largest number of pages of a document in the runs checked for
\* termination.
MaxLivePages == 2

\* ------------------------------------------------------------- Python str

\* str.strip() with no argument removes leading and trailing whitespace.
IsSpace(ch) == ch \in {" ", "\n"}

RECURSIVE LStrip(_)
LStrip(s) ==
    IF s = <<>> THEN <<>>
    ELSE IF IsSpace(Head(s)) THEN LStrip(Tail(s)) ELSE s

RECURSIVE RStrip(_)
RStrip(s) ==
    IF s = <<>> THEN <<>>
    ELSE IF IsSpace(s[Len(s)]) THEN RStrip(SubSeq(s, 1, Len(s) - 1)) ELSE s

\* As a variant, a strip() that was left out.
StripNothing(s) == s

Strip(s) == RStrip(LStrip(s))

\* The separator "\n\n" of both joins.
Sep == <<"\n", "\n">>

RECURSIVE Join(_)
Join(parts) ==
    IF parts = <<>> THEN <<>>
    ELSE IF Len(parts) = 1 THEN parts[1]
    ELSE parts[1] \o Sep \o Join(Tail(parts))

\* filter(None, text_chunks): drops the falsy (empty) strings.
FilterNone(parts) == SelectSeq(parts, LAMBDA t : t # <<>>)

\* Optional[str] None, as a value no text equals.
None == <<"<None>">>

\* Python truthiness of an Optional[str]: None and "" are falsy; as a
\* variant, a test that never passes.
AlwaysFalsy(t) == FALSE

Truthy(t) == t # None /\ t # <<>>

\* max_pages: Optional[int]; <<>> is None and <<k>> is the int k.
NoLimit == <<>>

IsInt(mp) == Len(mp) = 1

Min(a, b) == IF a < b THEN a ELSE b

Max(a, b) == IF a > b THEN a ELSE b

\* The number of elements of xs[:k] for a list of n elements; as a variant,
\* a slice that keeps one element more.
SliceOffByOne(n, k) == IF k >= 0 THEN Min(k + 1, n) ELSE Max(n + k, 0)

SliceIfPositive(n, k) == IF k > 0 THEN Min(k, n) ELSE n

SliceShort(n, k) ==
    IF k - 1 >= 0 THEN Min(k - 1, n) ELSE Max(n + k - 1, 0)

SliceLen(n, k) == IF k >= 0 THEN Min(k, n) ELSE Max(n + k, 0)

\* ------------------------------------------------- documents and settings

\* What one page yields to the collaborators: get_text() returns `native`
\* or, when `get_text` is "raise", raises;
\* get_pixmap()/Image.open either raise or give an image of the page's
\* `ink`; the OCR engine either raises on that ink or reads it as the text
\* `eng` under language "eng" and `ind` under language "ind".
PgA ==
    [native |-> <<>>, get_text |-> "ok", render |-> "ok",
     ink |-> [raises |-> FALSE, eng |-> <<"a">>, ind |-> <<"A">>]]

PgB ==
    [native |-> <<>>, get_text |-> "ok", render |-> "ok",
     ink |-> [raises |-> FALSE, eng |-> <<" ", "b", "\n">>, ind |-> <<"B">>]]

PgBlank ==
    [native |-> <<>>, get_text |-> "ok", render |-> "ok",
     ink |-> [raises |-> FALSE, eng |-> <<" ">>, ind |-> <<>>]]

PgBadRender ==
    [native |-> <<>>, get_text |-> "ok", render |-> "raise",
     ink |-> [raises |-> FALSE, eng |-> <<"r">>, ind |-> <<"R">>]]

PgBadOcr ==
    [native |-> <<>>, get_text |-> "ok", render |-> "ok",
     ink |-> [raises |-> TRUE, eng |-> <<"f">>, ind |-> <<"F">>]]

PgDigital ==
    [native |-> <<" ", "x">>, get_text |-> "ok", render |-> "ok",
     ink |-> [raises |-> FALSE, eng |-> <<"x">>, ind |-> <<"X">>]]

PgUnreadable ==
    [native |-> <<"u">>, get_text |-> "raise", render |-> "ok",
     ink |-> [raises |-> FALSE, eng |-> <<"u">>, ind |-> <<"U">>]]

\* Pages with a text layer: a second digital page, and one whose text
\* layer is whitespace only.
PgNote ==
    [native |-> <<"y", "\n">>, get_text |-> "ok", render |-> "ok",
     ink |-> [raises |-> FALSE, eng |-> <<"y">>, ind |-> <<"Y">>]]

PgSpace ==
    [native |-> <<" ", "\n">>, get_text |-> "ok", render |-> "ok",
     ink |-> [raises |-> FALSE, eng |-> <<>>, ind |-> <<>>]]

ScannedKinds == {PgA, PgB, PgBlank, PgBadRender, PgBadOcr}

PageKinds == ScannedKinds \cup {PgDigital}

\* Bytes fitz.open rejects (not a PDF).
NotAPdf == [openable |-> FALSE, pages |-> <<>>]

\* The documents of at most n pages over the page kinds ks.
DocsOver(ks, n) ==
    {[openable |-> TRUE, pages |-> ps] :
        ps \in UNION {[1..k -> ks] : k \in 0..n}}

\* The documents whose pages carry a text layer, some of them blank.
NativeDocs == DocsOver({PgDigital, PgNote, PgSpace}, MaxPages)

\* The documents of one or two pages that open but have a page whose text
\* layer cannot be read.
UnreadableDocs ==
    {d \in DocsOver({PgUnreadable, PgDigital, PgA}, 2) :
        \E i \in DOMAIN d.pages : d.pages[i] = PgUnreadable}

\* The per-call keyword arguments other than max_pages and parallel.
DefaultSettings == [language |-> "eng", dpi |-> 100, oem |-> 1, psm |-> 6]

OtherSettings == [language |-> "ind", dpi |-> 300, oem |-> 3, psm |-> 3]

MakeCfg(s, mp, par) ==
    [language |-> s.language, dpi |-> s.dpi, oem |-> s.oem, psm |-> s.psm,
     max_pages |-> mp, parallel |-> par]

\* max_pages values: None and the ints -1..n.
Limits(n) == {NoLimit} \cup {<<k>> : k \in -1..n}

\* ------------------------------------------------------------ collaborators

\* pytesseract's default command and the executables that exist.
DefaultCmd == "tesseract"

EnvCmd == "/opt/tesseract"

Installed == {DefaultCmd, EnvCmd}

\* page.get_pixmap(dpi=dpi) ... Image.open(...).convert("L")
RenderRaises(page, dpi) == page.render = "raise"

RenderImage(src, page, dpi) == [src |-> src, dpi |-> dpi, ink |-> page.ink]

\* pytesseract.image_to_string(image, lang=language, config=config), run
\* with the executable pytesseract.pytesseract.tesseract_cmd.
OcrRaises(cmd, image, language, config) ==
    image.ink.raises \/ cmd \notin Installed

OcrOutput(cmd, image, language, config) ==
    IF language = "eng" THEN image.ink.eng ELSE image.ink.ind

\* ------------------------------------------------------- the direct reader

\* An exception that leaves a function, as the value of the call.
Escaped == <<"<raise>">>

\* fitz.open (line 31) or a page's get_text() (line 34) raises on d.
ReaderRaises(d) ==
    ~d.openable \/ \E i \in DOMAIN d.pages : d.pages[i].get_text = "raise"

\* Lines 39-41: except Exception: print(...); return None; as a variant,
\* no handler.
ReaderFailureEscapes(d) == Escaped

ReaderFailure(d) == None

\* extract_text_from_pdf_bytes: the stripped get_text() of every page, the
\* empty ones dropped, joined and stripped; None when that is empty or when
\* opening or reading raises.
NativeParts(d) ==
    FilterNone([i \in 1..Len(d.pages) |-> Strip(d.pages[i].native)])

\* As a variant, line 38 returning combined as it is.
ReaderReturnsCombined(d) ==
    IF ReaderRaises(d) THEN ReaderFailure(d)
    ELSE Strip(Join(NativeParts(d)))

extract_text_from_pdf_bytes(d) ==
    IF ReaderRaises(d) THEN ReaderFailure(d)
    ELSE LET combined == Strip(Join(NativeParts(d)))
         IN  IF combined # <<>> THEN combined ELSE None

\* -------------------------------------------------------------------- state

\* The extract_text_with_ocr calls in flight (two servicer threads).
Calls == {1, 2}

VARIABLES
    env,            \* os.environ["TESSERACT_CMD"]; "" when unset
    tesseract_cmd,  \* pytesseract.pytesseract.tesseract_cmd (module global)
    doc,            \* doc[c]: the document behind pdf_bytes of call c
    cfg,            \* cfg[c]: language, dpi, oem, psm, max_pages, parallel
    pc,             \* pc[c]: where call c is
    direct_text,    \* direct_text[c]: line 72
    pages,          \* pages[c]: the selected page handles (1-based indices)
    units,          \* units[c][i]: process_page on pages[c][i]
    cursor,         \* cursor[c]: the page the loop / the map iterator is at
    text_chunks,    \* text_chunks[c]: line 78
    result,         \* result[c]: how the call ended, and with what text
    client,         \* claude_service.client is not None
    SESSION_HISTORY,\* claude_service._SESSION_HISTORY: session -> list object
    lists,          \* the list objects the chatbot made; lists[r] is object r
    chat,           \* chat[t]: the handle_chatbot_query call of thread t
    asked,          \* asked[s]: the questions put to session s, in order
    limit,          \* limit[s]: how many questions session s is asked
    chats,          \* the rows of table chats, in insertion order
    saved_under,    \* saved_under[i]: the session_id row i was saved with
    fetched,        \* the last get_chat_history call and what it returned
    compliance      \* the check_compliance_pure_llm call

\* The state of the chatbot in claude_service.
chatbot == <<client, SESSION_HISTORY, lists, chat, asked, limit>>

\* The state of the chat table behind database_service.
database == <<chats, saved_under, fetched>>

services == <<chatbot, database, compliance>>

\* The state of the extraction pipeline in pdf_reader_service.
pipeline ==
    <<env, tesseract_cmd, doc, cfg, pc, direct_text, pages, units, cursor,
      text_chunks, result>>

vars == <<pipeline, services>>

\* The session ids of the chatbot; session_id None (or "") is falsy at
\* lines 67 and 85 of claude_service.
Sessions == {"s", "t"}

NoSession == ""

\* The threads that call handle_chatbot_query.
Threads == {1, 2}

\* A thread between two calls; `returned` is what its last call returned.
ChatIdle ==
    [pc |-> "idle", session_id |-> NoSession, question |-> 0,
     answer |-> <<>>, history |-> 0, returned |-> <<>>]

\* No get_chat_history call made yet.
NotFetched ==
    [called |-> FALSE, connected |-> FALSE, session_id |-> NoSession,
     contract_id |-> "", rows |-> <<>>]

\* An empty chat table.
DatabaseIdle ==
    /\ chats = <<>>
    /\ saved_under = <<>>
    /\ fetched = NotFetched

\* No check_compliance_pure_llm call to be made.
ComplianceIdle ==
    compliance = [pc |-> "off", payload |-> <<>>, returned |-> <<>>]

\* The chatbot at import, with no thread calling it.
ServicesIdle ==
    /\ DatabaseIdle
    /\ ComplianceIdle
    /\ client = TRUE
    /\ SESSION_HISTORY = [s \in Sessions |-> 0]
    /\ lists = <<>>
    /\ chat = [t \in Threads |-> [ChatIdle EXCEPT !.pc = "off"]]
    /\ asked = [s \in Sessions |-> <<>>]
    /\ limit = [s \in Sessions |-> 0]

\* A page unit before its worker (or the loop) has started it.
Queued ==
    [st |-> "queued", image |-> <<>>, text |-> <<>>, renders |-> 0,
     ocrs |-> 0, ocr_args |-> <<>>, taken |-> FALSE]

Running == [kind |-> "running", text |-> <<>>]

Returned(t) == [kind |-> "returned", text |-> t]

\* The call ended with an exception that reached its caller.
Raised == [kind |-> "raised", text |-> <<>>]

\* The state all calls start from, for the given inputs; a call whose
\* entry in `on` is FALSE is never made.
Start(e, d, k, on) ==
    /\ env = e
    /\ tesseract_cmd = DefaultCmd
    /\ doc = d
    /\ cfg = k
    /\ pc = [c \in Calls |-> IF on[c] THEN "start" ELSE "off"]
    /\ direct_text = [c \in Calls |-> None]
    /\ pages = [c \in Calls |-> <<>>]
    /\ units = [c \in Calls |-> <<>>]
    /\ cursor = [c \in Calls |-> 1]
    /\ text_chunks = [c \in Calls |-> <<>>]
    /\ result = [c \in Calls |-> Running]
    /\ ServicesIdle

Envs == {"", EnvCmd}

\* One call, on any document of at most MaxPages pages, on a document with
\* an unreadable text layer or on bytes that are no PDF, with any page limit
\* and either mode.
Init ==
    \E e \in Envs,
       d \in DocsOver(PageKinds, MaxPages) \cup NativeDocs \cup UnreadableDocs
                \cup {NotAPdf},
       mp \in Limits(MaxPages),
       par \in BOOLEAN :
        Start(e,
              [c \in Calls |-> IF c = 1 THEN d ELSE NotAPdf],
              [c \in Calls |-> MakeCfg(DefaultSettings,
                                       IF c = 1 THEN mp ELSE NoLimit,
                                       IF c = 1 THEN par ELSE FALSE)],
              [c \in Calls |-> c = 1])

\* One call as in Init, on a document of at most MaxLivePages pages, with
\* no page limit or a limit of one page.
InitLive ==
    \E e \in Envs,
       d \in DocsOver(PageKinds, MaxLivePages) \cup UnreadableDocs \cup {NotAPdf},
       mp \in {NoLimit, <<1>>},
       par \in BOOLEAN :
        Start(e,
              [c \in Calls |-> IF c = 1 THEN d ELSE NotAPdf],
              [c \in Calls |-> MakeCfg(DefaultSettings,
                                       IF c = 1 THEN mp ELSE NoLimit,
                                       IF c = 1 THEN par ELSE FALSE)],
              [c \in Calls |-> c = 1])

\* The document d without its page k.
RemovePage(d, k) ==
    [d EXCEPT !.pages = SubSeq(@, 1, k - 1) \o SubSeq(@, k + 1, Len(@))]

\* The pages of d whose recognition always fails.
BadOcrPages(d) == {k \in 1..Len(d.pages) : d.pages[k] = PgBadOcr}

PairDocs ==
    DocsOver({PgA, PgB, PgBadOcr}, MaxPairPages)
        \cup {[openable |-> TRUE, pages |-> <<PgDigital>>]}

PairCfgs ==
    {MakeCfg(s, mp, par) : s \in {DefaultSettings, OtherSettings},
                           mp \in {NoLimit, <<1>>},
                           par \in BOOLEAN}

\* Two concurrent calls in a process whose environment sets TESSERACT_CMD:
\* the second on the same document with any settings, or with the same
\* settings on the document less one page that fails recognition.
InitPair ==
    \E e \in {EnvCmd}, d \in PairDocs, k1 \in PairCfgs :
        \E v \in {<<d, k2>> : k2 \in PairCfgs}
                 \cup {<<RemovePage(d, k), k1>> : k \in BadOcrPages(d)} :
            Start(e,
                  [c \in Calls |-> IF c = 1 THEN d ELSE v[1]],
                  [c \in Calls |-> IF c = 1 THEN k1 ELSE v[2]],
                  [c \in Calls |-> TRUE])

\* ------------------------------------------------------------------ actions

\* if direct_text:  (line 73)
UseDirect(t) == Truthy(t)

\* Lines 72-74: the direct reader found text; return it.  As a variant,
\* a direct reader that is given the first max_pages pages only.
DirectReturnLimited(c) ==
    LET d == IF IsInt(cfg[c].max_pages)
             THEN [doc[c] EXCEPT !.pages =
                     SubSeq(@, 1, SliceLen(Len(@), cfg[c].max_pages[1]))]
             ELSE doc[c]
    IN  /\ pc[c] = "start"
        /\ extract_text_from_pdf_bytes(d) # Escaped
        /\ UseDirect(extract_text_from_pdf_bytes(d))
        /\ direct_text' = [direct_text EXCEPT ![c] = extract_text_from_pdf_bytes(d)]
        /\ result' = [result EXCEPT ![c] = Returned(direct_text'[c])]
        /\ pc' = [pc EXCEPT ![c] = "done"]
        /\ UNCHANGED <<services, env, tesseract_cmd, doc, cfg, pages, units, cursor,
                       text_chunks>>

DirectReturn(c) ==
    /\ pc[c] = "start"
    /\ extract_text_from_pdf_bytes(doc[c]) # Escaped
    /\ UseDirect(extract_text_from_pdf_bytes(doc[c]))
    /\ direct_text' = [direct_text EXCEPT ![c] = extract_text_from_pdf_bytes(doc[c])]
    /\ result' = [result EXCEPT ![c] = Returned(direct_text'[c])]
    /\ pc' = [pc EXCEPT ![c] = "done"]
    /\ UNCHANGED <<services, env, tesseract_cmd, doc, cfg, pages, units, cursor, text_chunks>>

\* _set_tesseract_cmd_from_env (lines 20-22).
CmdAfterSet(cmd, e) == IF e # "" THEN e ELSE cmd

\* text_chunks: List[str] = []  (line 78); as a variant, a list shared by
\* the calls (module level) that is never cleared.
LeakedChunks(c) == text_chunks[3 - c]

FreshChunks(c) == <<>>

\* Lines 72-78: the direct reader found nothing; fall back to OCR.  (Line
\* 72 is outside the try of line 79: an exception leaving the direct reader
\* would leave the call.)
Fallback(c) ==
    /\ pc[c] = "start"
    /\ IF extract_text_from_pdf_bytes(doc[c]) = Escaped
       THEN /\ result' = [result EXCEPT ![c] = Raised]
            /\ pc' = [pc EXCEPT ![c] = "done"]
            /\ UNCHANGED <<direct_text, tesseract_cmd, text_chunks>>
       ELSE /\ ~UseDirect(extract_text_from_pdf_bytes(doc[c]))
            /\ direct_text' = [direct_text EXCEPT ![c] = extract_text_from_pdf_bytes(doc[c])]
            /\ tesseract_cmd' = CmdAfterSet(tesseract_cmd, env)
            /\ text_chunks' = [text_chunks EXCEPT ![c] = FreshChunks(c)]
            /\ pc' = [pc EXCEPT ![c] = "open"]
            /\ UNCHANGED result
    /\ UNCHANGED <<services, env, doc, cfg, pages, units, cursor>>

\* Lines 107-109: except Exception: print(...); return ""; as a variant,
\* a handler that re-raises.
OuterExceptRaises == Raised

OuterExcept == Returned(<<>>)

\* Lines 81-83: pages = list(doc); if isinstance(max_pages, int):
\* pages = pages[:max_pages]
SelectPages(d, mp) ==
    [i \in 1..(IF IsInt(mp) THEN SliceLen(Len(d.pages), mp[1])
                            ELSE Len(d.pages)) |-> i]

\* Lines 80-83 and the branch at 94: open the document, select the pages.
OpenDocument(c) ==
    /\ pc[c] = "open"
    /\ IF ~doc[c].openable
       THEN /\ result' = [result EXCEPT ![c] = OuterExcept]
            /\ pc' = [pc EXCEPT ![c] = "done"]
            /\ UNCHANGED <<pages, units>>
       ELSE /\ pages' = [pages EXCEPT ![c] = SelectPages(doc[c], cfg[c].max_pages)]
            /\ units' = [units EXCEPT ![c] = [i \in 1..Len(pages'[c]) |-> Queued]]
            /\ pc' = [pc EXCEPT ![c] = IF cfg[c].parallel THEN "map" ELSE "loop"]
            /\ UNCHANGED result
    /\ UNCHANGED <<services, env, tesseract_cmd, doc, cfg, direct_text, cursor, text_chunks>>

\* The variables process_page closes over: the keyword arguments of its
\* own call (lines 88-89); as a variant, settings kept at module level by
\* the first call.
SettingsOfFirstCall(c) == cfg[1]

Closure(c) == cfg[c]

\* Lines 90-92: except Exception: print(...); return ""; as variants, a
\* handler that re-raises, one that returns the error text and one that
\* runs the page once more.
PageFailureRetries(u) ==
    IF u.renders < 2
    THEN [u EXCEPT !.st = "queued", !.image = <<>>, !.text = <<>>]
    ELSE [u EXCEPT !.st = "done", !.text = <<>>]

PageFailurePropagates(u) == [u EXCEPT !.st = "raised", !.text = <<>>]

PageFailureReportsError(u) == [u EXCEPT !.st = "done", !.text = <<"e">>]

PageFailure(u) == [u EXCEPT !.st = "done", !.text = <<>>]

\* Line 88: image = _render_page_to_image(p, dpi=dpi)
RenderStep(c, i) ==
    LET u    == units[c][i]
        page == doc[c].pages[pages[c][i]]
        dpi  == Closure(c).dpi
    IN  IF RenderRaises(page, dpi)
        THEN PageFailure([u EXCEPT !.renders = @ + 1])
        ELSE [u EXCEPT !.st = "rendered", !.renders = @ + 1,
                       !.image = <<RenderImage(pages[c][i], page, dpi)>>]

\* The arguments line 89 passes to _ocr_image_to_text (lines 44-46); as a
\* variant, the image taken from a variable the page units share, which
\* holds the image of the first page rendered.
OcrArgsSharedImage(c, i) ==
    LET have == {j \in DOMAIN units[c] : units[c][j].image # <<>>}
        j    == CHOOSE j \in have : \A k \in have : j <= k
    IN  [image    |-> units[c][j].image[1],
         language |-> Closure(c).language,
         config   |-> [oem |-> Closure(c).oem, psm |-> Closure(c).psm],
         cmd      |-> tesseract_cmd]

OcrArgs(c, i) ==
    [image    |-> units[c][i].image[1],
     language |-> Closure(c).language,
     config   |-> [oem |-> Closure(c).oem, psm |-> Closure(c).psm],
     cmd      |-> tesseract_cmd]

\* Line 89: return _ocr_image_to_text(image, ...).strip(); as a variant,
\* without the strip().
RecognizeStepNoStrip(c, i) ==
    LET u == units[c][i]
        a == OcrArgs(c, i)
        called == [u EXCEPT !.ocrs = @ + 1, !.ocr_args = <<a>>]
    IN  IF OcrRaises(a.cmd, a.image, a.language, a.config)
        THEN PageFailure(called)
        ELSE [called EXCEPT
                !.st = "done",
                !.text = OcrOutput(a.cmd, a.image, a.language, a.config)]

RecognizeStep(c, i) ==
    LET u == units[c][i]
        a == OcrArgs(c, i)
        called == [u EXCEPT !.ocrs = @ + 1, !.ocr_args = <<a>>]
    IN  IF OcrRaises(a.cmd, a.image, a.language, a.config)
        THEN PageFailure(called)
        ELSE [called EXCEPT
                !.st = "done",
                !.text = Strip(OcrOutput(a.cmd, a.image, a.language, a.config))]

Finished(u) == u.st \in {"done", "raised"}

AllFinished(c) == \A i \in DOMAIN units[c] : Finished(units[c][i])

\* if text: text_chunks.append(text)  (lines 99-100 and 104-105)
Appended(chunks, text) == IF Truthy(text) THEN Append(chunks, text) ELSE chunks

\* A pool worker runs line 88 of a submitted page unit.  The pool of
\* ThreadPoolExecutor() has at least five workers, more than the pages of
\* any document here, so every queued unit may start at any time.
WorkerRender(c, i) ==
    /\ pc[c] = "map"
    /\ units[c][i].st = "queued"
    /\ units' = [units EXCEPT ![c][i] = RenderStep(c, i)]
    /\ UNCHANGED <<services, env, tesseract_cmd, doc, cfg, pc, direct_text, pages, cursor,
                   text_chunks, result>>

\* A pool worker runs line 89 on the image it rendered; as a variant, a
\* process_page that appends its text to text_chunks itself.
WorkerRecognizeAppends(c, i) ==
    /\ pc[c] = "map"
    /\ units[c][i].st = "rendered"
    /\ units' = [units EXCEPT ![c][i] = RecognizeStep(c, i)]
    /\ text_chunks' = [text_chunks EXCEPT ![c] = Appended(@, units'[c][i].text)]
    /\ UNCHANGED <<services, env, tesseract_cmd, doc, cfg, pc, direct_text, pages, cursor,
                   result>>

WorkerRecognize(c, i) ==
    /\ pc[c] = "map"
    /\ units[c][i].st = "rendered"
    /\ units' = [units EXCEPT ![c][i] = RecognizeStep(c, i)]
    /\ UNCHANGED <<services, env, tesseract_cmd, doc, cfg, pc, direct_text, pages, cursor,
                   text_chunks, result>>

\* The calling thread receives the value of page unit i: an exception that
\* left process_page goes to the outer handler (in parallel mode after the
\* with block has waited for the pool), a text is appended if non-empty.
Receive(c, i) ==
    /\ IF units[c][i].st = "raised"
       THEN /\ pc[c] = "map" => AllFinished(c)
            /\ result' = [result EXCEPT ![c] = OuterExcept]
            /\ pc' = [pc EXCEPT ![c] = "done"]
            /\ UNCHANGED <<text_chunks, cursor>>
       ELSE /\ text_chunks' = [text_chunks EXCEPT ![c] = Appended(@, units[c][i].text)]
            /\ cursor' = [cursor EXCEPT ![c] = @ + 1]
            /\ UNCHANGED <<pc, result>>
    /\ units' = [units EXCEPT ![c][i].taken = TRUE]
    /\ UNCHANGED <<services, env, tesseract_cmd, doc, cfg, direct_text, pages>>

\* The page units whose result executor.map may hand out next: as_completed
\* order (a variant), an iterator that does not wait for the result (a
\* variant) and submission order (line 98).
YieldWithoutWaiting(c) == {i \in DOMAIN units[c] : i = cursor[c]}

YieldCompleted(c) ==
    {i \in DOMAIN units[c] : ~units[c][i].taken /\ Finished(units[c][i])}

YieldNext(c) ==
    {i \in DOMAIN units[c] : i = cursor[c] /\ Finished(units[c][i])}

\* Lines 98-100: the iterator of executor.map yields the next result.
MapYield(c) ==
    /\ pc[c] = "map"
    /\ \E i \in YieldNext(c) : Receive(c, i)

\* Lines 102-103, first half of process_page(p) in the loop; as a variant,
\* a loop that starts pages without waiting for the one before.
SeqRenderAny(c) ==
    /\ pc[c] = "loop"
    /\ \E i \in DOMAIN units[c] :
         /\ units[c][i].st = "queued"
         /\ units' = [units EXCEPT ![c][i] = RenderStep(c, i)]
    /\ UNCHANGED <<services, env, tesseract_cmd, doc, cfg, pc, direct_text, pages, cursor,
                   text_chunks, result>>

SeqRender(c) ==
    /\ pc[c] = "loop"
    /\ cursor[c] \in DOMAIN units[c]
    /\ units[c][cursor[c]].st = "queued"
    /\ units' = [units EXCEPT ![c][cursor[c]] = RenderStep(c, cursor[c])]
    /\ UNCHANGED <<services, env, tesseract_cmd, doc, cfg, pc, direct_text, pages, cursor,
                   text_chunks, result>>

\* Line 103, second half of process_page(p) in the loop.
SeqRecognize(c) ==
    /\ pc[c] = "loop"
    /\ cursor[c] \in DOMAIN units[c]
    /\ units[c][cursor[c]].st = "rendered"
    /\ units' = [units EXCEPT ![c][cursor[c]] = RecognizeStep(c, cursor[c])]
    /\ UNCHANGED <<services, env, tesseract_cmd, doc, cfg, pc, direct_text, pages, cursor,
                   text_chunks, result>>

\* Lines 103-105: process_page returned; append its text.
SeqAppend(c) ==
    /\ pc[c] = "loop"
    /\ cursor[c] \in DOMAIN units[c]
    /\ Finished(units[c][cursor[c]])
    /\ Receive(c, cursor[c])

\* Line 106: "\n\n".join(filter(None, text_chunks)).strip()
Aggregate(chunks) == Strip(Join(FilterNone(chunks)))

\* Lines 86-92 as one thread runs them on one page: render, recognize,
\* strip; "" on any exception.
process_page(src, page, k, cmd) ==
    IF RenderRaises(page, k.dpi) THEN <<>>
    ELSE LET image  == RenderImage(src, page, k.dpi)
             config == [oem |-> k.oem, psm |-> k.psm]
         IN  IF OcrRaises(cmd, image, k.language, config) THEN <<>>
             ELSE Strip(OcrOutput(cmd, image, k.language, config))

\* Lines 102-105: the chunks after the loop over the first n selected pages.
RECURSIVE LoopChunks(_, _, _, _, _)
LoopChunks(d, sel, k, cmd, n) ==
    IF n = 0 THEN <<>>
    ELSE Appended(LoopChunks(d, sel, k, cmd, n - 1),
                  process_page(sel[n], d.pages[sel[n]], k, cmd))

\* Lines 71-109 as one call runs them by itself in a process whose
\* environment is e: what the call returns.
extract_text_with_ocr(d, k, e) ==
    LET direct == extract_text_from_pdf_bytes(d)
        sel    == SelectPages(d, k.max_pages)
    IN  IF direct = Escaped THEN Raised
        ELSE IF Truthy(direct) THEN Returned(direct)
        ELSE IF ~d.openable THEN OuterExcept
        ELSE Returned(Aggregate(
                 LoopChunks(d, sel, k, CmdAfterSet(DefaultCmd, e), Len(sel))))

\* The loop over the pages (or over the map iterator) is exhausted; the
\* with block of line 97 leaves only when every worker has finished.
\* As variants, a loop left at the first result without waiting, and a
\* loop that goes on waiting until some text has arrived.
WaitsForText(c) ==
    /\ cursor[c] > Len(units[c])
    /\ text_chunks[c] # <<>>

ReturnsEarly(c) == cursor[c] > 1 \/ units[c] = <<>>

LoopDone(c) ==
    /\ cursor[c] > Len(units[c])
    /\ pc[c] = "map" => AllFinished(c)

\* Line 106: return the aggregate.
ReturnText(c) ==
    /\ pc[c] \in {"map", "loop"}
    /\ LoopDone(c)
    /\ result' = [result EXCEPT ![c] = Returned(Aggregate(text_chunks[c]))]
    /\ pc' = [pc EXCEPT ![c] = "done"]
    /\ UNCHANGED <<services, env, tesseract_cmd, doc, cfg, direct_text, pages, units, cursor,
                   text_chunks>>

Next ==
    \E c \in Calls :
        \/ DirectReturn(c)
        \/ Fallback(c)
        \/ OpenDocument(c)
        \/ \E i \in DOMAIN units[c] : WorkerRender(c, i)
        \/ \E i \in DOMAIN units[c] : WorkerRecognize(c, i)
        \/ MapYield(c)
        \/ SeqRender(c)
        \/ SeqRecognize(c)
        \/ SeqAppend(c)
        \/ ReturnText(c)

Spec == Init /\ [][Next]_vars

SpecPair == InitPair /\ [][Next]_vars

\* The steps of the thread that made call c, and of the pool workers of
\* call c.
MainThread(c) ==
    \/ DirectReturn(c)
    \/ Fallback(c)
    \/ OpenDocument(c)
    \/ MapYield(c)
    \/ SeqRender(c)
    \/ SeqRecognize(c)
    \/ SeqAppend(c)
    \/ ReturnText(c)

Workers(c) ==
    \E i \in DOMAIN units[c] : WorkerRender(c, i) \/ WorkerRecognize(c, i)

\* Every primitive returns or throws and the threads are scheduled: a
\* thread that can take a step eventually takes one.
Fairness == \A c \in Calls : WF_vars(MainThread(c)) /\ WF_vars(Workers(c))

SpecLive == InitLive /\ [][Next]_vars /\ Fairness

\* ------------------------------------------- the chatbot (claude_service)

\* Line 89: the number of turns a session keeps.
HistoryCap == 10

\* Line 62.
NoClientMessage == "Chatbot tidak dapat terhubung ke API Claude."

\* Line 82: answer = response.content[0].text.strip(), what the model
\* says to question q.
ModelAnswer(q) == <<"answer", q>>

\* Line 87: {"q": question, "a": answer}
Turn(q, a) == [q |-> q, a |-> a]

\* Lines 89-90: if len(history) > 10: history = history[-10:]; as a
\* variant, history[:10].
TrimmedOldest(h) ==
    IF Len(h) > HistoryCap THEN SubSeq(h, 1, HistoryCap) ELSE h

Trimmed(h) ==
    IF Len(h) > HistoryCap
    THEN SubSeq(h, Len(h) - HistoryCap + 1, Len(h))
    ELSE h

\* Lines 61-75: without a client the call returns at once; otherwise it
\* builds the prompt from the session's turns (read only) and the question.
\* The k-th question put to a session is k.
ChatStart(t, sid) ==
    /\ chat[t].pc = "idle"
    /\ sid \in Sessions => Len(asked[sid]) < limit[sid]
    /\ IF ~client
       THEN /\ chat' = [chat EXCEPT ![t] =
                          [ChatIdle EXCEPT !.session_id = sid,
                                           !.returned = <<NoClientMessage>>]]
            /\ UNCHANGED asked
       ELSE LET q == IF sid \in Sessions THEN Len(asked[sid]) + 1 ELSE 0
            IN  /\ chat' = [chat EXCEPT ![t] =
                              [ChatIdle EXCEPT !.pc = "ask",
                                               !.session_id = sid,
                                               !.question = q]]
                /\ asked' = IF sid \in Sessions
                            THEN [asked EXCEPT ![sid] = Append(@, q)]
                            ELSE asked
    /\ UNCHANGED <<pipeline, database, compliance, client, SESSION_HISTORY, lists, limit>>

\* Lines 77-82: the model answers.
ChatAsk(t) ==
    /\ chat[t].pc = "ask"
    /\ chat' = [chat EXCEPT ![t].pc = "save",
                            ![t].answer = ModelAnswer(chat[t].question)]
    /\ UNCHANGED <<pipeline, database, compliance, client, SESSION_HISTORY, lists, asked, limit>>

\* Lines 85-86: history = _SESSION_HISTORY.get(session_id, []): the list
\* object stored for the session or, when there is none, a new empty list.
\* Without a session id the call returns (line 93).
ChatGet(t) ==
    /\ chat[t].pc = "save"
    /\ IF chat[t].session_id = NoSession
       THEN /\ chat' = [chat EXCEPT ![t].pc = "idle",
                                    ![t].returned = chat[t].answer]
            /\ UNCHANGED lists
       ELSE IF SESSION_HISTORY[chat[t].session_id] # 0
       THEN /\ chat' = [chat EXCEPT ![t].pc = "append",
                                    ![t].history = SESSION_HISTORY[chat[t].session_id]]
            /\ UNCHANGED lists
       ELSE /\ lists' = Append(lists, <<>>)
            /\ chat' = [chat EXCEPT ![t].pc = "append",
                                    ![t].history = Len(lists) + 1]
    /\ UNCHANGED <<pipeline, database, compliance, client, SESSION_HISTORY, asked, limit>>

\* Line 87: history.append({"q": question, "a": answer}), in place.
ChatAppend(t) ==
    /\ chat[t].pc = "append"
    /\ lists' = [lists EXCEPT ![chat[t].history] =
                   Append(@, Turn(chat[t].question, chat[t].answer))]
    /\ chat' = [chat EXCEPT ![t].pc = "trim"]
    /\ UNCHANGED <<pipeline, database, compliance, client, SESSION_HISTORY, asked, limit>>

\* Lines 89-90: a slice is a new list object.
ChatTrim(t) ==
    /\ chat[t].pc = "trim"
    /\ IF Trimmed(lists[chat[t].history]) # lists[chat[t].history]
       THEN /\ lists' = Append(lists, Trimmed(lists[chat[t].history]))
            /\ chat' = [chat EXCEPT ![t].pc = "store",
                                    ![t].history = Len(lists) + 1]
       ELSE /\ chat' = [chat EXCEPT ![t].pc = "store"]
            /\ UNCHANGED lists
    /\ UNCHANGED <<pipeline, database, compliance, client, SESSION_HISTORY, asked, limit>>

\* Lines 91-93: _SESSION_HISTORY[session_id] = history; return answer
ChatStore(t) ==
    /\ chat[t].pc = "store"
    /\ SESSION_HISTORY' =
         [SESSION_HISTORY EXCEPT ![chat[t].session_id] = chat[t].history]
    /\ chat' = [chat EXCEPT ![t].pc = "idle", ![t].returned = chat[t].answer]
    /\ UNCHANGED <<pipeline, database, compliance, client, lists, asked, limit>>

NextChat ==
    \E t \in Threads :
        \/ \E sid \in Sessions \cup {NoSession} : ChatStart(t, sid)
        \/ ChatAsk(t)
        \/ ChatGet(t)
        \/ ChatAppend(t)
        \/ ChatTrim(t)
        \/ ChatStore(t)

\* The pipeline with no call made.
PipelineIdle ==
    /\ env = ""
    /\ tesseract_cmd = DefaultCmd
    /\ doc = [c \in Calls |-> NotAPdf]
    /\ cfg = [c \in Calls |-> MakeCfg(DefaultSettings, NoLimit, FALSE)]
    /\ pc = [c \in Calls |-> "off"]
    /\ direct_text = [c \in Calls |-> None]
    /\ pages = [c \in Calls |-> <<>>]
    /\ units = [c \in Calls |-> <<>>]
    /\ cursor = [c \in Calls |-> 1]
    /\ text_chunks = [c \in Calls |-> <<>>]
    /\ result = [c \in Calls |-> Running]

\* The most turns a session is asked when calls come one after another.
MaxTurns == 12

\* One thread that makes its calls one after another, on a process that
\* has or has not an API client.
InitChat ==
    /\ PipelineIdle
    /\ DatabaseIdle
    /\ ComplianceIdle
    /\ client \in BOOLEAN
    /\ SESSION_HISTORY = [s \in Sessions |-> 0]
    /\ lists = <<>>
    /\ chat = [t \in Threads |-> IF t = 1 THEN ChatIdle
                                 ELSE [ChatIdle EXCEPT !.pc = "off"]]
    /\ asked = [s \in Sessions |-> <<>>]
    /\ limit = [s \in Sessions |-> MaxTurns]

SpecChat == InitChat /\ [][NextChat]_vars

\* The most turns session "s" has been asked before two threads call.
MaxPrior == 10

\* Two threads, each about to make one call, in a process where session
\* "s" has been asked k questions before (it has no entry when k = 0).
InitChatRace ==
    \E k \in 0..MaxPrior :
        /\ PipelineIdle
        /\ DatabaseIdle
        /\ ComplianceIdle
        /\ client = TRUE
        /\ SESSION_HISTORY = [s \in Sessions |-> IF s = "s" /\ k > 0 THEN 1 ELSE 0]
        /\ lists = IF k > 0
                   THEN <<Trimmed([i \in 1..k |-> Turn(i, ModelAnswer(i))])>>
                   ELSE <<>>
        /\ chat = [t \in Threads |-> ChatIdle]
        /\ asked = [s \in Sessions |-> IF s = "s" THEN [i \in 1..k |-> i] ELSE <<>>]
        /\ limit = [s \in Sessions |-> IF s = "s" THEN k + 2 ELSE 1]

SpecChatRace == InitChatRace /\ [][NextChat]_vars

\* --------------------------------------- chat history (database_service)

\* The contracts that have chats.
Contracts == {"c1", "c2"}

\* The most rows the chat table gets.
MaxRows == 3

\* The chatbot with no thread calling it.
ChatbotIdle ==
    /\ client = TRUE
    /\ SESSION_HISTORY = [s \in Sessions |-> 0]
    /\ lists = <<>>
    /\ chat = [t \in Threads |-> [ChatIdle EXCEPT !.pc = "off"]]
    /\ asked = [s \in Sessions |-> <<>>]
    /\ limit = [s \in Sessions |-> 0]

\* Lines 150-153: INSERT INTO chats (contract_id, content, is_answer);
\* created_at is the time of the insert.
NewRow(table, cid, content, is_answer) ==
    [contract_id |-> cid, content |-> content, is_answer |-> is_answer,
     created_at |-> Len(table) + 1]

\* save_chat_message (lines 138-164); connected is whether
\* get_db_connection gave a connection (lines 143-146).  The content of
\* the n-th message saved is n.
save_chat_message(sid, cid, is_answer, connected) ==
    /\ Len(chats) < MaxRows
    /\ IF connected
       THEN /\ chats' = Append(chats, NewRow(chats, cid, Len(chats) + 1, is_answer))
            /\ saved_under' = Append(saved_under, sid)
       ELSE UNCHANGED <<chats, saved_under>>
    /\ UNCHANGED <<pipeline, chatbot, compliance, fetched>>

\* Lines 111-116: SELECT content, is_answer, created_at FROM chats WHERE
\* contract_id = %s ORDER BY created_at ASC  (rows are kept in created_at
\* order).
SelectChats(table, cid) ==
    SelectSeq(table, LAMBDA row : row.contract_id = cid)

\* Lines 119-126.
ChatMessage(row) ==
    [role |-> IF row.is_answer THEN "assistant" ELSE "user",
     content |-> row.content]

\* get_chat_history (lines 98-135) as a function of the table.
ChatHistoryOf(table, sid, cid, connected) ==
    IF ~connected THEN <<>>
    ELSE [i \in DOMAIN SelectChats(table, cid) |->
            ChatMessage(SelectChats(table, cid)[i])]

get_chat_history(sid, cid, connected) ==
    /\ fetched' = [called |-> TRUE, connected |-> connected,
                   session_id |-> sid, contract_id |-> cid,
                   rows |-> ChatHistoryOf(chats, sid, cid, connected)]
    /\ UNCHANGED <<pipeline, chatbot, compliance, chats, saved_under>>

NextDb ==
    \E sid \in Sessions, cid \in Contracts, connected \in BOOLEAN :
        \/ \E is_answer \in BOOLEAN :
             save_chat_message(sid, cid, is_answer, connected)
        \/ get_chat_history(sid, cid, connected)

InitDb ==
    /\ PipelineIdle
    /\ ChatbotIdle
    /\ ComplianceIdle
    /\ DatabaseIdle

SpecDb == InitDb /\ [][NextDb]_vars

\* ------------------------------ the compliance check (claude_service)

\* The letters, for str.title().
LowerCase ==
    <<"a", "b", "c", "d", "e", "f", "g", "h", "i", "j", "k", "l", "m">> \o
    <<"n", "o", "p", "q", "r", "s", "t", "u", "v", "w", "x", "y", "z">>

UpperCase ==
    <<"A", "B", "C", "D", "E", "F", "G", "H", "I", "J", "K", "L", "M">> \o
    <<"N", "O", "P", "Q", "R", "S", "T", "U", "V", "W", "X", "Y", "Z">>

IsLetter(ch) == \E i \in 1..26 : ch = LowerCase[i] \/ ch = UpperCase[i]

ToUpper(ch) ==
    IF \E i \in 1..26 : ch = LowerCase[i]
    THEN UpperCase[CHOOSE i \in 1..26 : ch = LowerCase[i]]
    ELSE ch

ToLower(ch) ==
    IF \E i \in 1..26 : ch = UpperCase[i]
    THEN LowerCase[CHOOSE i \in 1..26 : ch = UpperCase[i]]
    ELSE ch

\* As a variant of str.title(), str.capitalize(): the first character in
\* upper case and the rest in lower case.
Capitalize(str) ==
    [i \in DOMAIN str |-> IF i = 1 THEN ToUpper(str[i]) ELSE ToLower(str[i])]

\* str.title() (line 331): a letter that follows a letter is put in lower
\* case, any other letter in upper case.
Title(str) ==
    [i \in DOMAIN str |->
        IF i > 1 /\ IsLetter(str[i - 1]) THEN ToLower(str[i]) ELSE ToUpper(str[i])]

\* The keys of summary (line 329).
Compliant == <<"C", "o", "m", "p", "l", "i", "a", "n", "t">>

Partial == <<"P", "a", "r", "t", "i", "a", "l">>

NonCompliant == <<"N", "o", "n", "-", "c", "o", "m", "p", "l", "i", "a", "n", "t">>

SummaryKeys == {Compliant, Partial, NonCompliant}

\* The statuses the model gives a policy; <<>> is a missing or null status.
Statuses ==
    {Compliant, Partial, NonCompliant,
     <<"c", "o", "m", "p", "l", "i", "a", "n", "t">>,
     <<"P", "A", "R", "T", "I", "A", "L">>,
     <<"n", "o", "n", "-", "c", "o", "m", "p", "l", "i", "a", "n", "t">>,
     <<"U", "n", "k", "n", "o", "w", "n">>,
     <<>>}

\* The most entries of matches in a model response.
MaxMatches == 2

\* A response json.loads (line 327) rejects.
Unparsable == [invalid |-> TRUE]

\* What json.loads makes of the model responses: objects with a list
\* matches of objects with a status, or without that key.
Payloads ==
    {Unparsable, [summary |-> <<"?">>]}
        \cup {[matches |-> ms, summary |-> <<"?">>] :
                ms \in UNION {[1..k -> [status : Statuses]] : k \in 0..MaxMatches}}

\* data.get("matches", [])  (line 330)
MatchesOf(data) == IF "matches" \in DOMAIN data THEN data.matches ELSE <<>>

\* Lines 329-333: the count under key k after the loop over the matches.
RECURSIVE CountTitled(_, _)
CountTitled(ms, k) ==
    IF ms = <<>> THEN 0
    ELSE (IF Title(Head(ms).status) = k THEN 1 ELSE 0) + CountTitled(Tail(ms), k)

Summary(data) == [k \in SummaryKeys |-> CountTitled(MatchesOf(data), k)]

\* Line 289, lines 334-335 and line 340.
ComplianceResult(has_client, payload) ==
    IF ~has_client
    THEN [matches |-> <<>>, summary |-> <<>>, note |-> "Claude API tidak terhubung"]
    ELSE IF payload = Unparsable
    THEN [matches |-> <<>>, summary |-> <<>>, error |-> "JSONDecodeError"]
    ELSE [k \in DOMAIN payload \cup {"summary"} |->
            IF k = "summary" THEN Summary(payload) ELSE payload[k]]

\* check_compliance_pure_llm (lines 282-340).
check_compliance_pure_llm ==
    /\ compliance.pc = "call"
    /\ compliance' = [compliance EXCEPT
                        !.pc = "done",
                        !.returned = ComplianceResult(client, compliance.payload)]
    /\ UNCHANGED <<pipeline, chatbot, database>>

NextCompliance == check_compliance_pure_llm

\* One call, in a process with or without an API client, to which the
\* model gives any of the responses.
InitCompliance ==
    /\ PipelineIdle
    /\ DatabaseIdle
    /\ SESSION_HISTORY = [s \in Sessions |-> 0]
    /\ lists = <<>>
    /\ chat = [t \in Threads |-> [ChatIdle EXCEPT !.pc = "off"]]
    /\ asked = [s \in Sessions |-> <<>>]
    /\ limit = [s \in Sessions |-> 0]
    /\ client \in BOOLEAN
    /\ \E p \in Payloads :
         compliance = [pc |-> "call", payload |-> p, returned |-> <<>>]

SpecCompliance == InitCompliance /\ [][NextCompliance]_vars

\* ------------------------------------------------------------------- claims

Done(c) == pc[c] = "done"

\* Call c found no native text: it is in, or has been through, the OCR phase.
InOcrPhase(c) == pc[c] \notin {"off", "start"} /\ ~Truthy(direct_text[c])

\* Call c opened the document in the OCR phase.
Opened(c) == InOcrPhase(c) /\ pc[c] # "open" /\ doc[c].openable

\* The page handles call c has given to the renderer, to the OCR engine.
RenderedPages(c) == {pages[c][i] : i \in {j \in DOMAIN units[c] : units[c][j].renders > 0}}

RecognizedPages(c) == {pages[c][i] : i \in {j \in DOMAIN units[c] : units[c][j].ocrs > 0}}

\* C1: whenever the direct reader yields non-empty text, no page is ever
\* rendered, the OCR engine is never invoked, and the call returns exactly
\* the direct reader's text, whatever max_pages and parallel are.
C1_DirectShortCircuit ==
    \A c \in Calls :
        (pc[c] # "off" /\ Truthy(extract_text_from_pdf_bytes(doc[c]))) =>
            /\ RenderedPages(c) = {}
            /\ RecognizedPages(c) = {}
            /\ pc[c] \in {"start", "done"}
            /\ Done(c) => result[c] = Returned(extract_text_from_pdf_bytes(doc[c]))

C1_Witness ==
    /\ Done(1)
    /\ Len(doc[1].pages) = 3
    /\ doc[1].pages[3] = PgDigital
    /\ cfg[1].parallel
    /\ cfg[1].max_pages = <<1>>
    /\ result[1] = Returned(<<"x">>)

\* The texts of the page units of call c, in page index order.
UnitTexts(c) == [i \in DOMAIN units[c] |-> units[c][i].text]

\* C2: for the same document and settings, the call in parallel mode
\* returns what the call in sequential mode returns, in every completion
\* order of the page units, and its chunks are the non-empty page texts in
\* ascending page index order.
C2_ParallelEqualsSequential ==
    \A c \in Calls, d \in Calls :
        (/\ Done(c) /\ Done(d)
         /\ doc[c] = doc[d]
         /\ cfg[c].parallel /\ ~cfg[d].parallel
         /\ cfg[c] = [cfg[d] EXCEPT !.parallel = TRUE]) =>
            /\ result[c] = result[d]
            /\ Opened(c) => text_chunks[c] = FilterNone(UnitTexts(c))

C2_Witness ==
    /\ Done(1) /\ Done(2)
    /\ doc[1] = doc[2]
    /\ doc[1].pages = <<PgB, PgA>>
    /\ cfg[1] = MakeCfg(DefaultSettings, NoLimit, TRUE)
    /\ cfg[2] = MakeCfg(DefaultSettings, NoLimit, FALSE)
    /\ result[1] = Returned(<<"b", "\n", "\n", "a">>)
    /\ result[2] = result[1]

\* C3 as stated: when recognition of page k always fails, the OCR-phase
\* result equals the result for the document with page k removed, whatever
\* the page limit is.
C3_EqualsDocumentWithoutPage ==
    \A k \in BadOcrPages(doc[1]) :
        (/\ doc[2] = RemovePage(doc[1], k)
         /\ cfg[2] = cfg[1]
         /\ Done(1) /\ Done(2)
         /\ InOcrPhase(1) /\ InOcrPhase(2)) =>
            result[1] = result[2]

\* The page limit mp leaves the pages after page k (1-based) of an n-page
\* document where they are when page k is removed: it is unset, or no
\* smaller than n, or it is non-negative and page k lies beyond it.
LimitSparesRemoval(mp, n, k) ==
    \/ ~IsInt(mp)
    \/ mp[1] >= n
    \/ 0 <= mp[1] /\ mp[1] < k

\* Every selected page of call c other than page k was rendered once, and
\* recognized once when its render succeeded.
OthersProcessed(c, k) ==
    \A i \in DOMAIN units[c] :
        pages[c][i] # k =>
            /\ units[c][i].renders = 1
            /\ units[c][i].ocrs =
                 (IF RenderRaises(doc[c].pages[pages[c][i]], cfg[c].dpi) THEN 0 ELSE 1)

\* C3 (amended): when recognition of page k always fails, no document-level
\* error is raised, every other selected page is still rendered and
\* recognized, in either mode, and the OCR-phase result equals the result
\* for the document with page k removed provided the page limit is unset,
\* is at least N, or is non-negative and at most k (0-based).
C3_FailedPageIsolated ==
    \A k \in BadOcrPages(doc[1]) :
        (Done(1) /\ InOcrPhase(1)) =>
            /\ result[1].kind = "returned"
            /\ OthersProcessed(1, k)
            /\ k \in DOMAIN units[1] => units[1][k].text = <<>>
            /\ (/\ doc[2] = RemovePage(doc[1], k)
                /\ cfg[2] = cfg[1]
                /\ Done(2)
                /\ LimitSparesRemoval(cfg[1].max_pages, Len(doc[1].pages), k)) =>
                    result[1] = result[2]

C3_Witness ==
    /\ Done(1) /\ Done(2)
    /\ doc[1].pages = <<PgBadOcr, PgA>>
    /\ doc[2].pages = <<PgA>>
    /\ cfg[1] = MakeCfg(DefaultSettings, NoLimit, TRUE)
    /\ cfg[2] = cfg[1]
    /\ units[1][1].ocrs = 1
    /\ units[1][2].ocrs = 1
    /\ result[1] = Returned(<<"a">>)
    /\ result[2] = result[1]

\* C4 as stated: when the direct reader reports no text and the document
\* cannot be opened in the OCR phase, the call ends in a document-level
\* error and does not return an empty string.
C4_OpenFailurePropagates ==
    \A c \in Calls :
        (Done(c) /\ InOcrPhase(c) /\ ~doc[c].openable) =>
            /\ result[c].kind = "raised"
            /\ result[c] # Returned(<<>>)

\* C5: in the OCR phase of a call on an N-page document with page limit k,
\* 0 < k < N, no page beyond the first k is ever rendered and, when the
\* call is done, each of the first k pages has been (pages are 1..N here,
\* the spec's indices 0..N-1 plus one), in either mode.
C5_LimitTruncates ==
    \A c \in Calls :
        (/\ Opened(c)
         /\ IsInt(cfg[c].max_pages)
         /\ 0 < cfg[c].max_pages[1]
         /\ cfg[c].max_pages[1] < Len(doc[c].pages)) =>
            /\ RenderedPages(c) \subseteq 1..cfg[c].max_pages[1]
            /\ Done(c) => RenderedPages(c) = 1..cfg[c].max_pages[1]

C5_Witness ==
    /\ Done(1)
    /\ Opened(1)
    /\ Len(doc[1].pages) = 3
    /\ cfg[1].max_pages = <<2>>
    /\ cfg[1].parallel
    /\ RenderedPages(1) = {1, 2}

\* C6: when the render of a selected page throws, the call still returns,
\* that page contributes the empty string and is not recognized, and every
\* selected page is rendered once and, if its render succeeded, recognized
\* once; the three-page document whose middle page fails to render gives
\* page0_text + "\n\n" + page2_text.
C6_RenderFailureIsolated ==
    \A c \in Calls :
        (Done(c) /\ Opened(c)) =>
            /\ result[c].kind = "returned"
            /\ result[c].text = Aggregate(FilterNone(UnitTexts(c)))
            /\ \A i \in DOMAIN units[c] :
                 /\ units[c][i].renders = 1
                 /\ IF RenderRaises(doc[c].pages[pages[c][i]], cfg[c].dpi)
                    THEN units[c][i].text = <<>> /\ units[c][i].ocrs = 0
                    ELSE units[c][i].ocrs = 1
            /\ (doc[c].pages = <<PgA, PgBadRender, PgB>> /\ Len(pages[c]) = 3) =>
                 result[c].text = <<"a", "\n", "\n", "b">>

C6_Witness ==
    /\ Done(1)
    /\ doc[1].pages = <<PgA, PgBadRender, PgB>>
    /\ cfg[1].parallel
    /\ Len(units[1]) = 3
    /\ units[1][2].renders = 1
    /\ units[1][2].ocrs = 0
    /\ units[1][3].ocrs = 1
    /\ result[1] = Returned(<<"a", "\n", "\n", "b">>)

\* The page kinds that yield no text: blank ink, a failing render, a
\* failing recognition.
EmptyKinds == {PgBlank, PgBadRender, PgBadOcr}

\* C7: when the document opens in the OCR phase and every selected page
\* yields empty text or fails (also when no page is selected), the call
\* returns the empty string and raises nothing.
C7_EmptyResultIsSuccess ==
    \A c \in Calls :
        (/\ Done(c) /\ Opened(c)
         /\ \A i \in DOMAIN pages[c] : doc[c].pages[pages[c][i]] \in EmptyKinds) =>
            result[c] = Returned(<<>>)

C7_Witness ==
    /\ Done(1) /\ Opened(1)
    /\ doc[1].pages = <<PgBlank, PgBadOcr, PgBadRender>>
    /\ Len(pages[1]) = 3
    /\ result[1] = Returned(<<>>)

\* C8: a call in parallel mode that has submitted its page units is not
\* done while any of them is queued or running, and every one of them has
\* been received by the calling thread.
C8_NoEarlyReturn ==
    \A c \in Calls :
        (Done(c) /\ Opened(c) /\ cfg[c].parallel) =>
            \A i \in DOMAIN units[c] :
                units[c][i].st = "done" /\ units[c][i].taken

C8_Witness ==
    /\ Done(1) /\ Opened(1)
    /\ cfg[1].parallel
    /\ Len(units[1]) = 3
    /\ result[1].kind = "returned"

\* C9: two calls with identical inputs return identical strings, in every
\* interleaving of the two calls and of their workers (so also when one
\* call runs entirely before the other).
C9_SameInputsSameResult ==
    \A c \in Calls, d \in Calls :
        (Done(c) /\ Done(d) /\ doc[c] = doc[d] /\ cfg[c] = cfg[d]) =>
            result[c] = result[d]

C9_Witness ==
    /\ Done(1) /\ Done(2)
    /\ doc[1] = doc[2]
    /\ cfg[1] = cfg[2]
    /\ cfg[1].parallel
    /\ doc[1].pages = <<PgA, PgB>>
    /\ result[1] = Returned(<<"a", "\n", "\n", "b">>)
    /\ result[2] = result[1]

\* C10: when two calls with different settings run concurrently, in every
\* interleaving each call renders at its own dpi, recognizes each image
\* with its own language, engine mode and segmentation mode, selects its
\* pages by its own limit, and returns what it returns when run alone.
C10_NoCrossCallInterference ==
    \A c \in Calls :
        /\ \A i \in DOMAIN units[c] :
             /\ units[c][i].image # <<>> =>
                  units[c][i].image[1].dpi = cfg[c].dpi
             /\ units[c][i].ocr_args # <<>> =>
                  /\ units[c][i].ocr_args[1].language = cfg[c].language
                  /\ units[c][i].ocr_args[1].config =
                       [oem |-> cfg[c].oem, psm |-> cfg[c].psm]
        /\ Opened(c) => pages[c] = SelectPages(doc[c], cfg[c].max_pages)
        /\ Done(c) => result[c] = extract_text_with_ocr(doc[c], cfg[c], env)

C10_Witness ==
    /\ doc[1].pages = <<PgA, PgB>>
    /\ doc[2] = doc[1]
    /\ cfg[1] = MakeCfg(DefaultSettings, NoLimit, TRUE)
    /\ cfg[2] = MakeCfg(OtherSettings, <<1>>, FALSE)
    /\ Done(1)
    /\ result[1] = Returned(<<"a", "\n", "\n", "b">>)
    /\ pc[2] = "loop"
    /\ units[2][1].st = "rendered"
    /\ units[2][1].image[1].dpi = 300
    /\ units[1][1].ocr_args[1].language = "eng"

\* C11 as stated: a call reads no process-wide configuration and leaves
\* all process-wide state as it was: the module global tesseract_cmd keeps
\* the value it had before the call, whatever the environment holds.
C11_NoGlobalWrites ==
    \A c \in Calls : pc[c] # "off" => tesseract_cmd = DefaultCmd

\* C12: when the direct reader cannot open the document or throws while
\* reading a page, it reports None, not an error, and the call goes on to
\* the OCR phase as for a scanned document: it opens the document again,
\* and if that succeeds renders and recognizes every selected page and
\* returns their aggregate.
C12_ReaderFailureFallsThrough ==
    \A c \in Calls :
        (pc[c] \notin {"off", "start"} /\ ReaderRaises(doc[c])) =>
            /\ direct_text[c] = None
            /\ InOcrPhase(c)
            /\ result[c].kind # "raised"
            /\ (Done(c) /\ ~doc[c].openable) => result[c] = OuterExcept
            /\ (Done(c) /\ doc[c].openable) =>
                 /\ pages[c] = SelectPages(doc[c], cfg[c].max_pages)
                 /\ \A i \in DOMAIN units[c] : units[c][i].renders = 1
                 /\ result[c] = Returned(Aggregate(FilterNone(UnitTexts(c))))

C12_Witness ==
    /\ Done(1)
    /\ doc[1].pages = <<PgDigital, PgUnreadable>>
    /\ cfg[1].max_pages = NoLimit
    /\ direct_text[1] = None
    /\ RecognizedPages(1) = {1, 2}
    /\ result[1] = Returned(<<"x", "\n", "\n", "u">>)

\* Page unit i of call c failed: its render raised, or its recognition did.
UnitFails(c, i) ==
    LET page == doc[c].pages[pages[c][i]]
    IN  \/ RenderRaises(page, cfg[c].dpi)
        \/ page.ink.raises

\* C13: within one call every selected page is rendered at most once and
\* recognized at most once, in either mode; a page whose render or
\* recognition failed has been attempted exactly once when the call is
\* done.
C13_NoRetries ==
    \A c \in Calls :
        \A i \in DOMAIN units[c] :
            /\ units[c][i].renders <= 1
            /\ units[c][i].ocrs <= 1
            /\ (Finished(units[c][i]) /\ UnitFails(c, i)) =>
                 /\ units[c][i].renders = 1
                 /\ units[c][i].renders + units[c][i].ocrs <= 2
                 /\ units[c][i].text = <<>>

C13_Witness ==
    /\ Done(1)
    /\ doc[1].pages = <<PgBadOcr, PgBadRender, PgA>>
    /\ Len(units[1]) = 3
    /\ units[1][1].renders = 1 /\ units[1][1].ocrs = 1
    /\ units[1][2].renders = 1 /\ units[1][2].ocrs = 0
    /\ result[1] = Returned(<<"a">>)

\* C14: with primitives that return or throw and fairly scheduled threads,
\* every call that was made completes: it returns a text or ends in a
\* failure, in either mode, whatever the pages and their failures.
C14_Terminates ==
    \A c \in Calls :
        (pc[c] = "start") ~> (Done(c) /\ result[c].kind \in {"returned", "raised"})

C14_Witness ==
    /\ Done(1)
    /\ cfg[1].parallel
    /\ doc[1].pages = <<PgBadRender, PgBadOcr>>
    /\ Len(units[1]) = 2
    /\ AllFinished(1)
    /\ result[1] = Returned(<<>>)

\* What the engine reads on selected page i of call c, trimmed; empty when
\* the page fails.
TrimmedPageText(c, i) ==
    LET page == doc[c].pages[pages[c][i]]
    IN  IF UnitFails(c, i) THEN <<>>
        ELSE Strip(IF cfg[c].language = "eng" THEN page.ink.eng ELSE page.ink.ind)

\* The non-empty trimmed page texts of call c, in page index order.
KeptTexts(c) == FilterNone([i \in DOMAIN pages[c] |-> TrimmedPageText(c, i)])

RECURSIVE TotalLen(_)
TotalLen(parts) == IF parts = <<>> THEN 0 ELSE Len(Head(parts)) + TotalLen(Tail(parts))

\* C15: the OCR-phase result is the trim of the "\n\n"-join of the trimmed
\* texts of the selected pages in page index order, the empty ones removed:
\* it holds one separator between two kept texts and none for an empty or
\* failed page, and none at its start or end.
C15_Aggregation ==
    \A c \in Calls :
        (Done(c) /\ Opened(c)) =>
            /\ result[c] = Returned(Strip(Join(KeptTexts(c))))
            /\ Len(result[c].text) =
                 TotalLen(KeptTexts(c)) + 2 * Max(Len(KeptTexts(c)) - 1, 0)
            /\ result[c].text # <<>> =>
                 /\ ~IsSpace(result[c].text[1])
                 /\ ~IsSpace(result[c].text[Len(result[c].text)])

C15_Witness ==
    /\ Done(1)
    /\ doc[1].pages = <<PgB, PgBlank, PgA>>
    /\ cfg[1].max_pages = NoLimit
    /\ result[1] = Returned(<<"b", "\n", "\n", "a">>)

\* The renderer has been called for page unit u.
Started(u) == u.renders > 0

\* C16: in sequential mode the page units run in ascending page index
\* order, one at a time: a unit has started only if every unit before it
\* has finished (failed ones too) and has been received by the loop.
C16_SequentialOrder ==
    \A c \in Calls :
        (Opened(c) /\ ~cfg[c].parallel) =>
            /\ \A i \in DOMAIN units[c] :
                 Started(units[c][i]) =>
                     \A j \in 1..(i - 1) :
                         Finished(units[c][j]) /\ units[c][j].taken
            /\ Cardinality({i \in DOMAIN units[c] :
                              Started(units[c][i]) /\ ~Finished(units[c][i])}) <= 1

C16_Witness ==
    /\ pc[1] = "loop"
    /\ doc[1].pages = <<PgBadRender, PgA, PgB>>
    /\ Len(units[1]) = 3
    /\ units[1][1].st = "done" /\ units[1][1].taken
    /\ units[1][2].st = "rendered"
    /\ units[1][3].st = "queued"

\* The page limit of call c is unset, or an integer not below the number
\* of pages of its document.
NonTruncating(c) ==
    \/ cfg[c].max_pages = NoLimit
    \/ IsInt(cfg[c].max_pages) /\ cfg[c].max_pages[1] >= Len(doc[c].pages)

\* C17: in the OCR phase with the page limit unset or an integer k >= N,
\* every one of the N pages of the document is dispatched exactly once:
\* the selected pages are pages 1..N, each has one page unit, no unit is
\* run twice, and when the call ends every unit has run once.
C17_AllPagesDispatchedOnce ==
    \A c \in Calls :
        (Opened(c) /\ NonTruncating(c)) =>
            /\ pages[c] = [i \in 1..Len(doc[c].pages) |-> i]
            /\ Len(units[c]) = Len(doc[c].pages)
            /\ \A i \in DOMAIN units[c] :
                 /\ units[c][i].renders <= 1
                 /\ Done(c) => units[c][i].renders = 1

C17_Witness ==
    /\ Done(1)
    /\ doc[1].pages = <<PgA, PgBadRender, PgB>>
    /\ cfg[1].max_pages = <<3>>
    /\ Len(units[1]) = 3
    /\ \A i \in 1..3 : units[1][i].renders = 1

C17_WitnessUnset ==
    /\ Done(1)
    /\ doc[1].pages = <<PgA, PgB>>
    /\ cfg[1].max_pages = NoLimit
    /\ Len(units[1]) = 2
    /\ \A i \in 1..2 : units[1][i].renders = 1

\* The render of page unit i of call c fails.
RenderFails(c, i) ==
    RenderRaises(doc[c].pages[pages[c][i]], cfg[c].dpi)

\* C18: a page unit is render then recognize.  The recognizer has been
\* invoked for a page only after that page's one render succeeded, and on
\* the image rendered from that same page; a page whose render failed has
\* no recognizer call and no image.
C18_RenderThenRecognize ==
    \A c \in Calls :
        \A i \in DOMAIN units[c] :
            LET u == units[c][i] IN
            /\ u.ocrs > 0 =>
                 /\ u.renders = 1
                 /\ ~RenderFails(c, i)
                 /\ u.image = <<RenderImage(pages[c][i],
                                            doc[c].pages[pages[c][i]],
                                            cfg[c].dpi)>>
                 /\ u.ocr_args[1].image = u.image[1]
                 /\ u.ocr_args[1].image.src = pages[c][i]
            /\ (u.renders > 0 /\ RenderFails(c, i)) =>
                 /\ u.ocrs = 0
                 /\ u.image = <<>>
                 /\ u.st = "done"
            /\ u.st = "queued" => u.ocrs = 0

C18_Witness ==
    /\ Done(1)
    /\ doc[1].pages = <<PgA, PgBadRender, PgB>>
    /\ Len(units[1]) = 3
    /\ units[1][1].ocrs = 1
    /\ units[1][2].renders = 1 /\ units[1][2].ocrs = 0
    /\ units[1][3].ocrs = 1
    /\ units[1][3].ocr_args[1].image.src = 3

\* What the worker of a page unit writes: everything but the mark the
\* calling thread leaves when it receives the result.
WorkOf(u) == [u EXCEPT !.taken = FALSE]

\* C19: in parallel mode a page unit is run by one worker, once, and its
\* result is written once: a unit is rendered and recognized at most once
\* and nothing of a finished unit changes afterwards; text_chunks changes
\* only in a step of the calling thread, which appends the text of the
\* finished unit under its cursor and runs no page unit.
C19_SingleWriter ==
    [][\A c \in Calls :
         cfg[c].parallel =>
             /\ \A i \in DOMAIN units[c] :
                  /\ i \in DOMAIN units'[c]
                  /\ units'[c][i].renders <= 1
                  /\ units'[c][i].ocrs <= 1
                  /\ units[c][i].st # "queued" =>
                       units'[c][i].renders = units[c][i].renders
                  /\ units[c][i].st # "rendered" =>
                       units'[c][i].ocrs = units[c][i].ocrs
                  /\ Finished(units[c][i]) =>
                       WorkOf(units'[c][i]) = WorkOf(units[c][i])
             /\ text_chunks'[c] # text_chunks[c] =>
                  /\ pc[c] = "map"
                  /\ cursor[c] \in DOMAIN units[c]
                  /\ Finished(units[c][cursor[c]])
                  /\ cursor'[c] = cursor[c] + 1
                  /\ text_chunks'[c] =
                       Append(text_chunks[c], units[c][cursor[c]].text)
                  /\ \A i \in DOMAIN units[c] :
                       WorkOf(units'[c][i]) = WorkOf(units[c][i])]_vars

C19_Witness ==
    /\ cfg[1].parallel
    /\ pc[1] = "map"
    /\ doc[1].pages = <<PgA, PgB, PgA>>
    /\ Len(units[1]) = 3
    /\ units[1][1].taken
    /\ text_chunks[1] = <<<<"a">>>>
    /\ units[1][2].st = "rendered"
    /\ units[1][3].st = "done" /\ ~units[1][3].taken
    /\ units[1][3].text = <<"a">>

\* C20 as stated: in parallel mode no page result is appended to the
\* chunk list while a dispatched page unit is still pending or running.
C20_BarrierBeforeAppend ==
    \A c \in Calls :
        cfg[c].parallel =>
            \A i \in DOMAIN units[c] :
                units[c][i].taken => AllFinished(c)

\* C20, amended: in parallel mode the result of a page unit is appended
\* only when that unit and every unit before it have finished (units
\* after it may still be pending or running), and the chunk list is joined
\* and the call returns only when every dispatched unit has finished and
\* the chunk list holds every non-empty page text.
C20_JoinAfterAllUnits ==
    \A c \in Calls :
        (Opened(c) /\ cfg[c].parallel) =>
            /\ \A i \in DOMAIN units[c] :
                 units[c][i].taken =>
                     \A j \in 1..i : Finished(units[c][j])
            /\ result[c].kind # "running" =>
                 /\ AllFinished(c)
                 /\ text_chunks[c] = KeptTexts(c)

C20_Witness ==
    /\ cfg[1].parallel
    /\ pc[1] = "map"
    /\ doc[1].pages = <<PgA, PgB, PgA>>
    /\ Len(units[1]) = 3
    /\ units[1][1].taken
    /\ text_chunks[1] = <<<<"a">>>>
    /\ units[1][2].st = "queued"
    /\ units[1][3].st = "rendered"

\* The native text layer of page i of d has a character that is not
\* whitespace.
HasNativeText(d, i) ==
    \E k \in DOMAIN d.pages[i].native : ~IsSpace(d.pages[i].native[k])

\* The trimmed native texts of the pages i..N of d that have text, in
\* page order.
RECURSIVE NativeKeptFrom(_, _)
NativeKeptFrom(d, i) ==
    IF i > Len(d.pages) THEN <<>>
    ELSE (IF HasNativeText(d, i) THEN <<Strip(d.pages[i].native)>> ELSE <<>>)
            \o NativeKeptFrom(d, i + 1)

\* C21: on a document that opens and whose pages can all be read, the
\* direct reader returns the trimmed "\n\n"-join of the trimmed non-empty
\* native texts of all pages in page order; it returns None exactly when
\* no page has a character that is not whitespace (zero pages included),
\* and never the empty string.
C21_DirectReaderResult ==
    \A c \in Calls :
        (pc[c] \notin {"off", "start"} /\ ~ReaderRaises(doc[c])) =>
            LET t    == direct_text[c]
                kept == NativeKeptFrom(doc[c], 1)
            IN  /\ t # <<>>
                /\ t = None <=>
                     \A i \in DOMAIN doc[c].pages : ~HasNativeText(doc[c], i)
                /\ t # None =>
                     /\ t = Strip(Join(kept))
                     /\ Len(t) = TotalLen(kept) + 2 * (Len(kept) - 1)
                     /\ ~IsSpace(t[1]) /\ ~IsSpace(t[Len(t)])

C21_Witness ==
    /\ Done(1)
    /\ doc[1].pages = <<PgDigital, PgSpace, PgNote>>
    /\ direct_text[1] = <<"x", "\n", "\n", "y">>
    /\ result[1] = Returned(<<"x", "\n", "\n", "y">>)

C21_WitnessNone ==
    /\ Done(1)
    /\ doc[1].pages = <<PgSpace, PgSpace>>
    /\ direct_text[1] = None

\* The value t is a str (neither None nor an exception).
IsStr(t) == t # None /\ t # Escaped

C22_WitnessPages ==
    /\ Done(1)
    /\ doc[1].pages = <<PgUnreadable, PgA>>
    /\ result[1] = Returned(<<"u", "\n", "\n", "a">>)

\* The text s occurs in the text t.
Occurs(s, t) ==
    \E k \in 0..(Len(t) - Len(s)) : SubSeq(t, k + 1, k + Len(s)) = s

\* C23: the page limit is ignored on the direct path.  When the document
\* can be read and some page has native text, the call returns the direct
\* text of all N pages whatever max_pages is: the trimmed text of every
\* page that has text occurs in it, pages beyond the limit included, and
\* no page is selected, rendered or recognized.
C23_LimitIgnoredOnDirectPath ==
    \A c \in Calls :
        (/\ Done(c)
         /\ ~ReaderRaises(doc[c])
         /\ \E i \in DOMAIN doc[c].pages : HasNativeText(doc[c], i)) =>
            /\ result[c] = Returned(Strip(Join(NativeKeptFrom(doc[c], 1))))
            /\ \A i \in DOMAIN doc[c].pages :
                 HasNativeText(doc[c], i) =>
                     Occurs(Strip(doc[c].pages[i].native), result[c].text)
            /\ pages[c] = <<>>
            /\ units[c] = <<>>
            /\ text_chunks[c] = <<>>

C23_Witness ==
    /\ Done(1)
    /\ doc[1].pages = <<PgA, PgB, PgDigital>>
    /\ cfg[1].max_pages = <<1>>
    /\ result[1] = Returned(<<"x">>)
    /\ units[1] = <<>>

C23_WitnessBoth ==
    /\ Done(1)
    /\ doc[1].pages = <<PgDigital, PgNote>>
    /\ cfg[1].max_pages = <<1>>
    /\ result[1] = Returned(<<"x", "\n", "\n", "y">>)

\* C24: in the OCR phase an integer page limit that is not positive is
\* neither rejected nor taken as unset.  With max_pages = 0 no page is
\* selected and the call returns the empty string; with max_pages = -m,
\* m > 0, exactly the first max(N - m, 0) pages are selected and each is
\* run once, the last m pages never.
C24_NonPositiveLimit ==
    \A c \in Calls :
        (Opened(c) /\ IsInt(cfg[c].max_pages) /\ cfg[c].max_pages[1] <= 0) =>
            LET m == 0 - cfg[c].max_pages[1]
                N == Len(doc[c].pages)
                n == IF m = 0 THEN 0 ELSE Max(N - m, 0)
            IN  /\ pages[c] = [i \in 1..n |-> i]
                /\ Len(units[c]) = n
                /\ RenderedPages(c) \subseteq 1..n
                /\ Done(c) =>
                     /\ result[c].kind = "returned"
                     /\ RenderedPages(c) = 1..n
                     /\ \A i \in DOMAIN units[c] : units[c][i].renders = 1
                     /\ m = 0 => result[c] = Returned(<<>>)

C24_Witness ==
    /\ Done(1)
    /\ doc[1].pages = <<PgA, PgB, PgA>>
    /\ cfg[1].max_pages = <<-1>>
    /\ RenderedPages(1) = {1, 2}
    /\ result[1] = Returned(<<"a", "\n", "\n", "b">>)

C24_WitnessZero ==
    /\ Done(1)
    /\ doc[1].pages = <<PgA, PgB>>
    /\ cfg[1].max_pages = <<0>>
    /\ units[1] = <<>>
    /\ result[1] = Returned(<<>>)

\* No handle_chatbot_query call is in progress.
ChatQuiet == \A t \in Threads : chat[t].pc \in {"idle", "off"}

\* The turns session s holds in _SESSION_HISTORY.
History(s) == IF SESSION_HISTORY[s] = 0 THEN <<>> ELSE lists[SESSION_HISTORY[s]]

\* The turns of the questions put to session s, in the order asked.
AskedTurns(s) == [i \in DOMAIN asked[s] |-> Turn(asked[s][i], ModelAnswer(asked[s][i]))]

\* C25: after any sequence of handle_chatbot_query calls, every session
\* holds at most 10 turns, and they are the most recent turns of that
\* session in the order asked; calls without a session id, and calls in a
\* process without an API client, leave _SESSION_HISTORY as it was.
C25_BoundedHistory ==
    ChatQuiet =>
        /\ \A s \in Sessions :
             /\ Len(History(s)) <= 10
             /\ Len(History(s)) = Min(Len(asked[s]), 10)
             /\ \A i \in DOMAIN History(s) :
                  History(s)[i] =
                      AskedTurns(s)[Len(asked[s]) - Len(History(s)) + i]
        /\ ~client => SESSION_HISTORY = [s \in Sessions |-> 0]

C25_Witness ==
    /\ ChatQuiet
    /\ Len(asked["s"]) = 12
    /\ Len(History("s")) = 10
    /\ History("s")[1].q = 3
    /\ History("s")[10].q = 12
    /\ Len(History("t")) = 1
    /\ chat[1].session_id = NoSession
    /\ chat[1].returned = ModelAnswer(0)

\* C26 as stated: when the calls on a session have returned and the
\* session has been asked no more than 10 questions, the turn of every
\* one of them is in the session's history, also when two of the calls
\* ran at the same time and the session had no history before.
C26_NoLostTurn ==
    ChatQuiet =>
        \A s \in Sessions :
            Len(asked[s]) <= 10 =>
                \A i \in DOMAIN asked[s] :
                    \E j \in DOMAIN History(s) : History(s)[j] = AskedTurns(s)[i]

\* The rows of the chat table saved under session sid for contract cid,
\* oldest first.
SavedBy(sid, cid) ==
    LET idx == {i \in DOMAIN chats :
                  saved_under[i] = sid /\ chats[i].contract_id = cid}
        RECURSIVE Asc(_)
        Asc(S) == IF S = {} THEN <<>>
                  ELSE LET i == CHOOSE i \in S :
                                  \A j \in S : chats[i].created_at <= chats[j].created_at
                       IN  <<chats[i]>> \o Asc(S \ {i})
    IN  Asc(idx)

\* C27 as stated: get_chat_history(session_id, contract_id), when the
\* database is reached, returns the messages saved under that session and
\* that contract only, in ascending creation order, with role 'assistant'
\* for answers and 'user' for questions.
C27_HistoryOfSessionOnly ==
    (fetched.called /\ fetched.connected) =>
        LET saved == SavedBy(fetched.session_id, fetched.contract_id)
        IN  /\ Len(fetched.rows) = Len(saved)
            /\ \A i \in DOMAIN saved :
                 /\ fetched.rows[i].content = saved[i].content
                 /\ fetched.rows[i].role =
                      (IF saved[i].is_answer THEN "assistant" ELSE "user")

\* The text str with every letter in lower case.
LowerOf(str) == [i \in DOMAIN str |-> ToLower(str[i])]

\* The number of entries of ms whose status is k but for the case of its
\* letters.
RECURSIVE CountStatus(_, _)
CountStatus(ms, k) ==
    IF ms = <<>> THEN 0
    ELSE (IF LowerOf(Head(ms).status) = LowerOf(k) THEN 1 ELSE 0)
            + CountStatus(Tail(ms), k)

\* C28 as stated: on a parsed model response the summary gives, for each
\* of Compliant, Partial and Non-compliant, the number of matches with that
\* status compared case-insensitively, and the three counts add up to the
\* number of matches that carry one of the three statuses.
C28_SummaryCounts ==
    (compliance.pc = "done" /\ client /\ compliance.payload # Unparsable) =>
        LET ms == MatchesOf(compliance.payload)
            sm == compliance.returned.summary
        IN  /\ \A k \in SummaryKeys : sm[k] = CountStatus(ms, k)
            /\ sm[Compliant] + sm[Partial] + sm[NonCompliant] =
                 Cardinality({i \in DOMAIN ms :
                     LowerOf(ms[i].status) \in {LowerOf(k) : k \in SummaryKeys}})

====
